---- MODULE Spec2Model ----
(***************************************************************************)
(* Model of the cu-prelim-planner backend: the WebScraper                  *)
(* (backend/src/webscrape.py), the DatabaseManager                         *)
(* (backend/src/database.py) and the Flask routes (backend/src/app.py).    *)
(*                                                                         *)
(* Text is a sequence of one-character strings, so that lower(), strip(),  *)
(* split(), startswith(), join() and the f-string concatenations are       *)
(* computed character by character as Python computes them.                *)
(***************************************************************************)
EXTENDS Integers, Sequences, FiniteSets, TLC

VARIABLES
    scraper,     \* WebScraper fields: semester, exam_type, file_name, year
    table_name,  \* DatabaseManager.table_name (NoneVal or a text)
    aborted,     \* the manager's connection is inside a failed transaction
    db,          \* committed tables of the database: name -> [cols, rows]
    files,       \* the file system: file name -> sequence of lines
    result,      \* the last call: [op, args, out, errs]
    calls        \* number of calls made so far

vars == <<scraper, table_name, aborted, db, files, result, calls>>

(***************************************************************************)
(* Bounds of the model.                                                    *)
(***************************************************************************)
MaxTokens == 8        \* longest generated line, in tokens
MaxRows == 4          \* rows a table may hold
MaxCalls == 3         \* calls made on one manager
MaxRequests == 2      \* requests served by the routes

(***************************************************************************)
(* Python values and text helpers.                                         *)
(***************************************************************************)
\* Python's None; no text is equal to it (a text holds one-character strings)
NoneVal == <<"<None>">>

\* str(None) inside an f-string is the text None
Interp(v) == IF v = NoneVal THEN <<"N", "o", "n", "e">> ELSE v

UpperChars == <<"A","B","C","D","E","F","G","H","I","J","K","L","M",
                "N","O","P","Q","R","S","T","U","V","W","X","Y","Z">>
LowerChars == <<"a","b","c","d","e","f","g","h","i","j","k","l","m",
                "n","o","p","q","r","s","t","u","v","w","x","y","z">>
Digits == {"0","1","2","3","4","5","6","7","8","9"}

UpperSet == {UpperChars[i] : i \in DOMAIN UpperChars}
LowerSet == {LowerChars[i] : i \in DOMAIN LowerChars}
ToLower == [c \in UpperSet |->
              LowerChars[CHOOSE i \in DOMAIN UpperChars : UpperChars[i] = c]]

IsUpper(c) == c \in UpperSet
IsLower(c) == c \in LowerSet

LowerChar(c) == IF IsUpper(c) THEN ToLower[c] ELSE c

\* str.lower()
Lower(s) == [i \in DOMAIN s |-> LowerChar(s[i])]

IsSpace(c) == c = " "

RECURSIVE LStrip(_)
LStrip(s) ==
    IF s = <<>> THEN <<>>
    ELSE IF IsSpace(Head(s)) THEN LStrip(Tail(s)) ELSE s

RECURSIVE RStrip(_)
RStrip(s) ==
    IF s = <<>> THEN <<>>
    ELSE IF IsSpace(s[Len(s)]) THEN RStrip(SubSeq(s, 1, Len(s) - 1)) ELSE s

\* str.strip()
Strip(s) == RStrip(LStrip(s))

\* str.startswith(p)
StartsWith(s, p) ==
    /\ Len(p) <= Len(s)
    /\ SubSeq(s, 1, Len(p)) = p

\* str.split(): the maximal runs of non-whitespace characters, in order
RECURSIVE SplitFrom(_, _, _)
SplitFrom(s, cur, acc) ==
    IF s = <<>>
    THEN IF cur = <<>> THEN acc ELSE Append(acc, cur)
    ELSE IF IsSpace(Head(s))
         THEN SplitFrom(Tail(s), <<>>, IF cur = <<>> THEN acc ELSE Append(acc, cur))
         ELSE SplitFrom(Tail(s), Append(cur, Head(s)), acc)

Split(s) == SplitFrom(s, <<>>, <<>>)

\* ' '.join(parts)
RECURSIVE Join(_)
Join(parts) ==
    IF parts = <<>> THEN <<>>
    ELSE IF Len(parts) = 1 THEN parts[1]
    ELSE parts[1] \o <<" ">> \o Join(Tail(parts))

\* parts[a:] with a 0-based start, as a Python slice (never raises)
SliceFrom(parts, a) ==
    IF a >= Len(parts) THEN <<>> ELSE SubSeq(parts, a + 1, Len(parts))

\* parts[a:b] with 0-based bounds, as a Python slice (never raises)
Slice(parts, a, b) ==
    IF a >= Len(parts) THEN <<>>
    ELSE SubSeq(parts, a + 1, IF b < Len(parts) THEN b ELSE Len(parts))

\* concatenation of a sequence of texts (an f-string's pieces)
RECURSIVE Concat(_)
Concat(pieces) ==
    IF pieces = <<>> THEN <<>> ELSE Head(pieces) \o Concat(Tail(pieces))

(***************************************************************************)
(* Outcomes of a call: a returned value or a raised exception.             *)
(***************************************************************************)
Ret(v) == [kind |-> "value", exc |-> "", value |-> v]
RetTrue == [kind |-> "True", exc |-> "", value |-> <<>>]
RetFalse == [kind |-> "False", exc |-> "", value |-> <<>>]
Raise(e) == [kind |-> "raise", exc |-> e, value |-> <<>>]
IsRaise(o) == o.kind = "raise"

(***************************************************************************)
(* Exam types.                                                             *)
(***************************************************************************)
PRELIM == <<"p","r","e","l","i","m">>
FINAL == <<"f","i","n","a","l">>
MIDTERM == <<"m","i","d","t","e","r","m">>
PRELIM_CAP == <<"P","r","e","l","i","m">>

ExamTypes == {PRELIM, FINAL, MIDTERM, PRELIM_CAP}

(***************************************************************************)
(* WebScraper.parse_exam_file                                              *)
(***************************************************************************)
SectionLen == 3

\* mutant: the third token is folded only when it looks like a section
\* number (three digits), not whenever it has three characters
DecodePrelim_DigitsOnly(parts) ==
    IF Len(parts) < 3 THEN Raise("IndexError")
    ELSE IF Len(parts[3]) = SectionLen /\ \A i \in DOMAIN parts[3] : parts[3][i] \in Digits
    THEN IF Len(parts) < 4 THEN Raise("IndexError")
         ELSE Ret([course_code |-> Strip(Concat(<<parts[1], <<" ">>, parts[2], <<" ">>, parts[3]>>)),
                   exam_date |-> Strip(parts[4]),
                   exam_locations |-> Strip(Join(SliceFrom(parts, 4)))])
    ELSE Ret([course_code |-> Strip(Concat(<<parts[1], <<" ">>, parts[2]>>)),
              exam_date |-> Strip(parts[3]),
              exam_locations |-> Strip(Join(SliceFrom(parts, 3)))])

\* mutant: the locations start one token early, at the date
DecodePrelim_LocationsFromDate(parts) ==
    IF Len(parts) < 3 THEN Raise("IndexError")
    ELSE IF Len(parts[3]) = SectionLen
    THEN IF Len(parts) < 4 THEN Raise("IndexError")
         ELSE Ret([course_code |-> Strip(Concat(<<parts[1], <<" ">>, parts[2], <<" ">>, parts[3]>>)),
                   exam_date |-> Strip(parts[4]),
                   exam_locations |-> Strip(Join(SliceFrom(parts, 3)))])
    ELSE Ret([course_code |-> Strip(Concat(<<parts[1], <<" ">>, parts[2]>>)),
              exam_date |-> Strip(parts[3]),
              exam_locations |-> Strip(Join(SliceFrom(parts, 2)))])

\* mutant: test_type takes one token instead of two
DecodeFinal_OneTokenTestType(parts) ==
    IF Len(parts) < 3 THEN Raise("IndexError")
    ELSE IF Len(parts[3]) = SectionLen
    THEN IF Len(parts) < 4 THEN Raise("IndexError")
         ELSE Ret([course_code |-> Strip(Concat(<<parts[1], <<" ">>, parts[2], <<" ">>, parts[3]>>)),
                   exam_date |-> Strip(parts[4]),
                   exam_time |-> Strip(Join(Slice(parts, 4, 6))),
                   test_type |-> Strip(Join(Slice(parts, 6, 7))),
                   exam_locations |-> Strip(Join(SliceFrom(parts, 7)))])
    ELSE Ret([course_code |-> Strip(Concat(<<parts[1], <<" ">>, parts[2]>>)),
              exam_date |-> Strip(parts[3]),
              exam_time |-> Strip(Join(Slice(parts, 3, 5))),
              test_type |-> Strip(Join(Slice(parts, 5, 6))),
              exam_locations |-> Strip(Join(SliceFrom(parts, 6)))])

\* the prelim branch of the loop body: a record, or IndexError
DecodePrelim(parts) ==
    IF Len(parts) < 3 THEN Raise("IndexError")                \* parts[2]
    ELSE IF Len(parts[3]) = SectionLen
    THEN IF Len(parts) < 4 THEN Raise("IndexError")           \* parts[3]
         ELSE Ret([course_code |-> Strip(Concat(<<parts[1], <<" ">>, parts[2], <<" ">>, parts[3]>>)),
                   exam_date |-> Strip(parts[4]),
                   exam_locations |-> Strip(Join(SliceFrom(parts, 4)))])
    ELSE Ret([course_code |-> Strip(Concat(<<parts[1], <<" ">>, parts[2]>>)),
              exam_date |-> Strip(parts[3]),
              exam_locations |-> Strip(Join(SliceFrom(parts, 3)))])

\* the final branch of the loop body: a record, or IndexError
DecodeFinal(parts) ==
    IF Len(parts) < 3 THEN Raise("IndexError")                \* parts[2]
    ELSE IF Len(parts[3]) = SectionLen
    THEN IF Len(parts) < 4 THEN Raise("IndexError")           \* parts[3]
         ELSE Ret([course_code |-> Strip(Concat(<<parts[1], <<" ">>, parts[2], <<" ">>, parts[3]>>)),
                   exam_date |-> Strip(parts[4]),
                   exam_time |-> Strip(Join(Slice(parts, 4, 6))),
                   test_type |-> Strip(Join(Slice(parts, 6, 8))),
                   exam_locations |-> Strip(Join(SliceFrom(parts, 8)))])
    ELSE Ret([course_code |-> Strip(Concat(<<parts[1], <<" ">>, parts[2]>>)),
              exam_date |-> Strip(parts[3]),
              exam_time |-> Strip(Join(Slice(parts, 3, 5))),
              test_type |-> Strip(Join(Slice(parts, 5, 7))),
              exam_locations |-> Strip(Join(SliceFrom(parts, 7)))])

\* one iteration's decoder, chosen by self.exam_type.lower()
DecodeLine(parts, exam_type) ==
    IF Lower(exam_type) = PRELIM THEN DecodePrelim(parts)
    ELSE IF Lower(exam_type) = FINAL THEN DecodeFinal(parts)
    ELSE Raise("ValueError")

\* the header line and the empty lines are skipped
Skipped(line, semester) ==
    StartsWith(Strip(line), semester) \/ Strip(line) = <<>>

\* the loop over the file: the list of records, or the first exception
RECURSIVE ParseFrom(_, _, _, _)
ParseFrom(lines, semester, exam_type, acc) ==
    IF lines = <<>> THEN Ret(acc)
    ELSE IF Skipped(Head(lines), semester)
    THEN ParseFrom(Tail(lines), semester, exam_type, acc)
    ELSE LET d == DecodeLine(Split(Strip(Head(lines))), exam_type)
         IN  IF IsRaise(d) THEN d
             ELSE ParseFrom(Tail(lines), semester, exam_type, Append(acc, d.value))

ParseExamFile(lines, semester, exam_type) ==
    ParseFrom(lines, semester, exam_type, <<>>)

(***************************************************************************)
(* The database: what PostgreSQL does with the statements the manager      *)
(* sends.  A table name written without quotes must be an identifier and   *)
(* is folded to lower case; a name written in double quotes is taken as    *)
(* it stands.  tables maps a name to [cols, rows], rows in heap order.     *)
(***************************************************************************)
IsIdentStart(c) == IsUpper(c) \/ IsLower(c) \/ c = "_"
IsIdentChar(c) == IsIdentStart(c) \/ c \in Digits \/ c = "$"

IsIdent(name) ==
    /\ name # <<>>
    /\ IsIdentStart(name[1])
    /\ \A i \in DOMAIN name : IsIdentChar(name[i])

ResolveUnquoted(name) == [ok |-> IsIdent(name), key |-> Lower(name)]
ResolveQuoted(name) == [ok |-> name # <<>>, key |-> name]

SqlOk(tables) == [err |-> "none", tables |-> tables, rows |-> <<>>]
SqlRows(tables, rows) == [err |-> "none", tables |-> tables, rows |-> rows]
SqlErr(tables, e) == [err |-> e, tables |-> tables, rows |-> <<>>]

\* the column definitions between the parentheses, split at the commas
RECURSIVE SplitAtCommas(_, _, _)
SplitAtCommas(toks, cur, acc) ==
    IF toks = <<>> THEN Append(acc, cur)
    ELSE IF Head(toks) = ","
         THEN SplitAtCommas(Tail(toks), <<>>, Append(acc, cur))
         ELSE SplitAtCommas(Tail(toks), Append(cur, Head(toks)), acc)

\* a column definition is: name TEXT NOT NULL
IsColDef(chunk) ==
    /\ Len(chunk) = 4
    /\ SubSeq(chunk, 2, 4) = <<"TEXT", "NOT", "NULL">>

ParseColDefs(toks) ==
    LET chunks == SplitAtCommas(toks, <<>>, <<>>)
    IN  [ok |-> \A i \in DOMAIN chunks : IsColDef(chunks[i]),
         cols |-> [i \in DOMAIN chunks |->
                     IF chunks[i] = <<>> THEN "" ELSE chunks[i][1]]]

ColSet(t) == {t.cols[i] : i \in DOMAIN t.cols}

\* CREATE TABLE IF NOT EXISTS name (coldefs);
SqlCreate(tables, name, coldefs) ==
    LET r == ResolveUnquoted(name)
        p == ParseColDefs(coldefs)
    IN  IF ~r.ok \/ ~p.ok THEN SqlErr(tables, "ProgrammingError")
        ELSE IF r.key \in DOMAIN tables THEN SqlOk(tables)
        ELSE SqlOk(tables @@ (r.key :> [cols |-> p.cols, rows |-> <<>>]))

\* mutant: course_code is a key; inserting a code the table already holds
\* replaces that row
SqlInsert_Upsert(tables, name, cols, vals) ==
    LET r == ResolveUnquoted(name)
    IN  IF ~r.ok THEN SqlErr(tables, "ProgrammingError")
        ELSE IF r.key \notin DOMAIN tables THEN SqlErr(tables, "ProgrammingError")
        ELSE LET t == tables[r.key]
                 given == {cols[i] : i \in DOMAIN cols}
                 row == [c \in ColSet(t) |->
                           IF c \in given
                           THEN vals[CHOOSE i \in DOMAIN cols : cols[i] = c]
                           ELSE NoneVal]
                 kept == SelectSeq(t.rows,
                            LAMBDA old : old["course_code"] # row["course_code"])
             IN  IF ~(given \subseteq ColSet(t)) THEN SqlErr(tables, "ProgrammingError")
                 ELSE IF \E c \in ColSet(t) : row[c] = NoneVal
                      THEN SqlErr(tables, "IntegrityError")
                 ELSE SqlOk([tables EXCEPT ![r.key].rows = Append(kept, row)])

\* INSERT INTO name (cols) VALUES (vals);
SqlInsert(tables, name, cols, vals) ==
    LET r == ResolveUnquoted(name)
    IN  IF ~r.ok THEN SqlErr(tables, "ProgrammingError")
        ELSE IF r.key \notin DOMAIN tables THEN SqlErr(tables, "ProgrammingError")
        ELSE LET t == tables[r.key]
                 given == {cols[i] : i \in DOMAIN cols}
                 row == [c \in ColSet(t) |->
                           IF c \in given
                           THEN vals[CHOOSE i \in DOMAIN cols : cols[i] = c]
                           ELSE NoneVal]
             IN  IF ~(given \subseteq ColSet(t)) THEN SqlErr(tables, "ProgrammingError")
                 ELSE IF \E c \in ColSet(t) : row[c] = NoneVal
                      THEN SqlErr(tables, "IntegrityError")
                 ELSE SqlOk([tables EXCEPT ![r.key].rows = Append(@, row)])

\* UPDATE name SET setcols = params[1..] WHERE course_code = params[last];
SqlUpdate(tables, name, setcols, params) ==
    LET r == ResolveUnquoted(name)
    IN  IF ~r.ok THEN SqlErr(tables, "ProgrammingError")
        ELSE IF r.key \notin DOMAIN tables THEN SqlErr(tables, "ProgrammingError")
        ELSE LET t == tables[r.key]
                 given == {setcols[i] : i \in DOMAIN setcols}
                 key == params[Len(params)]
                 upd(row) == [c \in ColSet(t) |->
                                IF c \in given
                                THEN params[CHOOSE i \in DOMAIN setcols : setcols[i] = c]
                                ELSE row[c]]
                 hit(row) == key # NoneVal /\ row["course_code"] = key
             IN  IF ~((given \cup {"course_code"}) \subseteq ColSet(t))
                 THEN SqlErr(tables, "ProgrammingError")
                 ELSE IF \E i \in DOMAIN t.rows, c \in given :
                            hit(t.rows[i]) /\ upd(t.rows[i])[c] = NoneVal
                      THEN SqlErr(tables, "IntegrityError")
                 ELSE SqlOk([tables EXCEPT ![r.key].rows =
                               [i \in DOMAIN t.rows |->
                                  IF hit(t.rows[i]) THEN upd(t.rows[i]) ELSE t.rows[i]]])

\* DELETE FROM "name" WHERE course_code = code;
SqlDelete(tables, name, code) ==
    LET r == ResolveQuoted(name)
    IN  IF ~r.ok THEN SqlErr(tables, "ProgrammingError")
        ELSE IF r.key \notin DOMAIN tables THEN SqlErr(tables, "ProgrammingError")
        ELSE IF "course_code" \notin ColSet(tables[r.key])
             THEN SqlErr(tables, "ProgrammingError")
        ELSE SqlOk([tables EXCEPT ![r.key].rows =
                      SelectSeq(@, LAMBDA row : ~(code # NoneVal /\ row["course_code"] = code))])

\* mutant: the statement empties every table of the database
SqlDeleteAll_EveryTable(tables, name) ==
    LET r == ResolveQuoted(name)
    IN  IF ~r.ok THEN SqlErr(tables, "ProgrammingError")
        ELSE IF r.key \notin DOMAIN tables THEN SqlErr(tables, "ProgrammingError")
        ELSE SqlOk([k \in DOMAIN tables |-> [tables[k] EXCEPT !.rows = <<>>]])

\* DELETE FROM "name";
SqlDeleteAll(tables, name) ==
    LET r == ResolveQuoted(name)
    IN  IF ~r.ok THEN SqlErr(tables, "ProgrammingError")
        ELSE IF r.key \notin DOMAIN tables THEN SqlErr(tables, "ProgrammingError")
        ELSE SqlOk([tables EXCEPT ![r.key].rows = <<>>])

\* a stored row as the tuple SELECT * returns: the values in column order
RowTuple(t, row) == [i \in DOMAIN t.cols |-> row[t.cols[i]]]

\* SELECT * FROM "name" WHERE course_code = code;
SqlSelect(tables, name, code) ==
    LET r == ResolveQuoted(name)
    IN  IF ~r.ok THEN SqlErr(tables, "ProgrammingError")
        ELSE IF r.key \notin DOMAIN tables THEN SqlErr(tables, "ProgrammingError")
        ELSE IF "course_code" \notin ColSet(tables[r.key])
             THEN SqlErr(tables, "ProgrammingError")
        ELSE LET t == tables[r.key]
                 hits == SelectSeq(t.rows,
                            LAMBDA row : code # NoneVal /\ row["course_code"] = code)
             IN  SqlRows(tables, [i \in DOMAIN hits |-> RowTuple(t, hits[i])])

(***************************************************************************)
(* A context is what one handler works on: the scraper's fields, the       *)
(* manager's table_name, its connection (aborted: inside a failed          *)
(* transaction; work: the tables as the open transaction sees them; db:    *)
(* the committed tables), the file system, and errs, the number of         *)
(* error_response calls the handler has made.                              *)
(***************************************************************************)
Result(c, o) == [ctx |-> c, out |-> o]

\* error_response(...): prints the message and returns False
ErrorResponse(c) == Result([c EXCEPT !.errs = @ + 1], RetFalse)

\* cur.execute(...): sem is what the statement does to the tables; env is
\* "operr" when the server fails the statement (psycopg2.OperationalError)
Execute(c, env, sem) ==
    IF c.aborted THEN [ctx |-> c, err |-> "InternalError", rows |-> <<>>]
    ELSE IF env = "operr"
    THEN [ctx |-> [c EXCEPT !.aborted = TRUE], err |-> "OperationalError", rows |-> <<>>]
    ELSE IF sem.err # "none"
    THEN [ctx |-> [c EXCEPT !.aborted = TRUE], err |-> sem.err, rows |-> <<>>]
    ELSE [ctx |-> [c EXCEPT !.work = sem.tables], err |-> "none", rows |-> sem.rows]

\* self.conn.commit(): ends the transaction; a failed one is rolled back
Commit(c) ==
    IF c.aborted THEN [c EXCEPT !.aborted = FALSE, !.work = c.db]
    ELSE [c EXCEPT !.db = c.work]

\* the except OperationalError clause of a handler, after a failed execute
Caught(e) ==
    IF e.err = "OperationalError" THEN ErrorResponse(e.ctx)
    ELSE Result(e.ctx, Raise(e.err))

(***************************************************************************)
(* WebScraper                                                              *)
(***************************************************************************)
NoResponse == [ok |-> FALSE, info |-> <<>>, lines |-> <<>>]

RECURSIVE DropBlankHead(_)
DropBlankHead(lines) ==
    IF lines = <<>> THEN <<>>
    ELSE IF Strip(Head(lines)) = <<>> THEN DropBlankHead(Tail(lines)) ELSE lines

RECURSIVE DropBlankTail(_)
DropBlankTail(lines) ==
    IF lines = <<>> THEN <<>>
    ELSE IF Strip(lines[Len(lines)]) = <<>>
         THEN DropBlankTail(SubSeq(lines, 1, Len(lines) - 1)) ELSE lines

\* pre_element.get_text(strip=True): the block without the white space
\* around it
StripBlock(lines) ==
    LET b == DropBlankTail(DropBlankHead(lines))
    IN  [i \in DOMAIN b |->
           IF i = 1 /\ i = Len(b) THEN Strip(b[i])
           ELSE IF i = 1 THEN LStrip(b[i])
           ELSE IF i = Len(b) THEN RStrip(b[i])
           ELSE b[i]]

FileName(sem, year, exam) ==
    Concat(<<Lower(sem), <<"-">>, year, <<"-">>, Lower(exam),
             <<"-","e","x","a","m","s",".","t","x","t">> >>)

\* save_to_text_file: fsok is whether the file system takes the write
SaveToTextFile(c, file_name, lines, fsok) ==
    IF fsok THEN [c EXCEPT !.files = [n \in DOMAIN c.files \cup {file_name} |->
                                        IF n = file_name THEN lines ELSE c.files[n]]]
    ELSE ErrorResponse(c).ctx

\* parse_html; an IndexError of split()[1] is caught by scrape_course_info
ParseHtml(c, resp, fsok) ==
    LET info == Strip(resp.info)
        body == StripBlock(resp.lines)
        toks == Split(info)
    IN  IF Len(toks) < 2 THEN ErrorResponse(c)
        ELSE LET year == toks[2]
                 name == FileName(c.scraper.semester, year, c.scraper.exam_type)
                 c1 == [c EXCEPT !.scraper.year = year, !.scraper.file_name = name]
             IN  Result(SaveToTextFile(c1, name, <<info>> \o body, fsok), Ret(body))

\* scrape_course_info: resp is the registrar's answer, NoResponse for a
\* transport error, a non-2xx status or a page without the expected elements
ScrapeCourseInfo(c, resp, fsok) ==
    IF ~resp.ok THEN ErrorResponse(c) ELSE ParseHtml(c, resp, fsok)

ProcessExamData(c, filepath) ==
    IF filepath = NoneVal THEN Result(c, Raise("AssertionError"))
    ELSE IF filepath \notin DOMAIN c.files THEN ErrorResponse(c)
    ELSE Result(c, ParseExamFile(c.files[filepath], c.scraper.semester,
                                 c.scraper.exam_type))

(***************************************************************************)
(* DatabaseManager                                                         *)
(***************************************************************************)
PrelimColDefs ==
    <<"course_code", "TEXT", "NOT", "NULL", ",",
      "exam_date", "TEXT", "NOT", "NULL", ",",
      "exam_locations", "TEXT", "NOT", "NULL">>

\* as written in the source: no comma after the test_type column
FinalColDefs ==
    <<"course_code", "TEXT", "NOT", "NULL", ",",
      "exam_date", "TEXT", "NOT", "NULL", ",",
      "exam_time", "TEXT", "NOT", "NULL", ",",
      "test_type", "TEXT", "NOT", "NULL",
      "exam_locations", "TEXT", "NOT", "NULL">>

GenerateCreateTableQuery(name, exam_type) ==
    IF Lower(exam_type) = PRELIM THEN Ret(PrelimColDefs)
    ELSE IF Lower(exam_type) = FINAL THEN Ret(FinalColDefs)
    ELSE Raise("ValueError")

SetExamTableName(c, name) == [c EXCEPT !.table_name = name]

ExamTableName(semester, year, exam_type) ==
    Concat(<<Interp(semester), <<"_">>, Interp(year), <<"_">>, Interp(exam_type),
             <<"_","e","x","a","m","s">> >>)

CreateExamTable(c, semester, exam_type, year, env) ==
    LET c1 == SetExamTableName(c, ExamTableName(semester, year, exam_type))
        q == GenerateCreateTableQuery(c1.table_name, exam_type)
    IN  IF IsRaise(q) THEN Result(c1, q)
        ELSE LET e == Execute(c1, env, SqlCreate(c1.work, Interp(c1.table_name), q.value))
             IN  IF e.err = "none" THEN Result(Commit(e.ctx), RetTrue)
                 ELSE Caught(e)

PrelimInsertCols == <<"course_code", "exam_date", "exam_locations">>
FinalInsertCols ==
    <<"course_code", "exam_date", "exam_time", "exam_or_deliverable", "exam_locations">>

GenerateInsertExamQuery(name, exam_type) ==
    IF Lower(exam_type) = PRELIM THEN Ret(PrelimInsertCols)
    ELSE IF Lower(exam_type) = FINAL THEN Ret(FinalInsertCols)
    ELSE Raise("ValueError")

InsertExam(c, code, date, locations, exam_type, time, test_type, env) ==
    LET q == GenerateInsertExamQuery(c.table_name, Lower(exam_type))
        vals == IF Lower(exam_type) = PRELIM THEN <<code, date, locations>>
                ELSE <<code, date, time, test_type, locations>>
    IN  IF IsRaise(q) THEN Result(c, q)
        ELSE LET e == Execute(c, env, SqlInsert(c.work, Interp(c.table_name), q.value, vals))
             IN  IF e.err = "none" THEN Result(Commit(e.ctx), RetTrue)
                 ELSE Caught(e)

\* dict.get(key): None for a key the record does not have
Get(rec, key) == IF key \in DOMAIN rec THEN rec[key] ELSE NoneVal

\* the loop of populate_exam_table from record i on; statement 1 of the
\* call is the CREATE TABLE, statement i + 1 the INSERT of record i, and
\* failAt is the statement the server fails (0: none)
RECURSIVE InsertAll(_, _, _, _, _)
InsertAll(c, recs, exam_type, i, failAt) ==
    IF i > Len(recs) THEN Result(c, RetTrue)
    ELSE LET r == recs[i]
             env == IF failAt = i + 1 THEN "operr" ELSE "ok"
             ins == IF Lower(exam_type) = FINAL
                    THEN InsertExam(c, Get(r, "course_code"), Get(r, "exam_date"),
                                    Get(r, "exam_locations"), Lower(exam_type),
                                    Get(r, "exam_time"), Get(r, "test_type"), env)
                    ELSE InsertExam(c, Get(r, "course_code"), Get(r, "exam_date"),
                                    Get(r, "exam_locations"), Lower(exam_type),
                                    NoneVal, NoneVal, env)
         IN  IF IsRaise(ins.out) THEN ins
             ELSE InsertAll(ins.ctx, recs, exam_type, i + 1, failAt)

PopulateExamTable(c, semester, exam_type, resp, fsok, failAt) ==
    LET s == ScrapeCourseInfo(c, resp, fsok)
        data == ProcessExamData(s.ctx, s.ctx.scraper.file_name)
        t == CreateExamTable(data.ctx, semester, Lower(exam_type), data.ctx.scraper.year,
                             IF failAt = 1 THEN "operr" ELSE "ok")
    IN  IF IsRaise(data.out) THEN data
        ELSE IF IsRaise(t.out) THEN t
        ELSE IF data.out.kind = "False" THEN Result(t.ctx, Raise("TypeError"))
        ELSE LET l == InsertAll(t.ctx, data.out.value, exam_type, 1, failAt)
             IN  IF IsRaise(l.out) THEN l
                 ELSE Result(Commit(l.ctx), RetTrue)

PrelimUpdateCols == <<"exam_date", "exam_locations">>
FinalUpdateCols == <<"exam_date", "exam_time", "exam_or_deliverable", "exam_locations">>

GenerateUpdateExamQuery(name, exam_type) ==
    IF Lower(exam_type) = PRELIM THEN Ret(PrelimUpdateCols)
    ELSE IF Lower(exam_type) = FINAL THEN Ret(FinalUpdateCols)
    ELSE Raise("ValueError")

\* the parameters are bound in the order the source passes them
UpdateExam(c, code, date, locations, exam_type, time, test_type, env) ==
    LET q == GenerateUpdateExamQuery(c.table_name, exam_type)
        params == IF Lower(exam_type) = PRELIM THEN <<code, date, locations>>
                  ELSE <<code, date, time, test_type, locations>>
    IN  IF IsRaise(q) THEN Result(c, q)
        ELSE LET e == Execute(c, env, SqlUpdate(c.work, Interp(c.table_name), q.value, params))
             IN  IF e.err = "none" THEN Result(Commit(e.ctx), RetTrue)
                 ELSE Caught(e)

\* mutant: a DELETE that matches no row is reported as an error
DeleteExam_ZeroRowsIsError(c, course_code, env) ==
    LET e == Execute(c, env, SqlDelete(c.work, Interp(c.table_name), course_code))
    IN  IF e.err = "none"
        THEN IF e.ctx.work = c.work THEN ErrorResponse(Commit(e.ctx))
             ELSE Result(Commit(e.ctx), RetTrue)
        ELSE Caught(e)

DeleteExam(c, course_code, env) ==
    LET e == Execute(c, env, SqlDelete(c.work, Interp(c.table_name), course_code))
    IN  IF e.err = "none" THEN Result(Commit(e.ctx), RetTrue)
        ELSE Caught(e)

DeleteAllExams(c, env) ==
    LET e == Execute(c, env, SqlDeleteAll(c.work, Interp(c.table_name)))
    IN  IF e.err = "none" THEN Result(Commit(e.ctx), RetTrue)
        ELSE Caught(e)

\* format_exam_record: exam_type is compared as given, record is indexed
\* by position
FormatExamRecord(record, exam_type) ==
    IF exam_type = PRELIM
    THEN IF Len(record) < 3 THEN Raise("IndexError")
         ELSE Ret([course_code |-> record[1], exam_date |-> record[2],
                   exam_locations |-> record[3]])
    ELSE IF exam_type = FINAL
    THEN IF Len(record) < 5 THEN Raise("IndexError")
         ELSE Ret([course_code |-> record[1], exam_date |-> record[2],
                   exam_time |-> record[3], test_type |-> record[4],
                   exam_locations |-> record[5]])
    ELSE Raise("ValueError")

\* the list comprehension of fetch_exam: the formatted records, or the
\* first exception
RECURSIVE FormatAll(_, _, _)
FormatAll(records, exam_type, acc) ==
    IF records = <<>> THEN Ret(acc)
    ELSE LET f == FormatExamRecord(Head(records), exam_type)
         IN  IF IsRaise(f) THEN f
             ELSE FormatAll(Tail(records), exam_type, Append(acc, f.value))

FetchExam(c, course_code, exam_type, env) ==
    LET e == Execute(c, env, SqlSelect(c.work, Interp(c.table_name), course_code))
    IN  IF e.err = "none" THEN Result(e.ctx, FormatAll(e.rows, exam_type, <<>>))
        ELSE Caught(e)

\* mutant: every row the statement returned is taken
FetchOne_EveryRow(rows) == rows

\* record = cur.fetchone(); if record: ... : the first row the statement
\* returned, if it returned any
FetchOne(rows) == IF rows = <<>> THEN <<>> ELSE <<rows[1]>>

\* the loop of fetch_k_exams from code i on; statement i of the call is the
\* SELECT for course_codes[i], and failAt is the statement the server fails
\* (0: none)
RECURSIVE FetchEach(_, _, _, _, _, _)
FetchEach(c, course_codes, exam_type, i, failAt, acc) ==
    IF i > Len(course_codes) THEN Result(c, Ret(acc))
    ELSE LET e == Execute(c, IF failAt = i THEN "operr" ELSE "ok",
                          SqlSelect(c.work, Interp(c.table_name), course_codes[i]))
         IN  IF e.err # "none" THEN Caught(e)
             ELSE LET f == FormatAll(FetchOne(e.rows), exam_type, <<>>)
                  IN  IF IsRaise(f) THEN Result(e.ctx, f)
                      ELSE FetchEach(e.ctx, course_codes, exam_type, i + 1, failAt,
                                     acc \o f.value)

FetchKExams(c, course_codes, exam_type, failAt) ==
    FetchEach(c, course_codes, exam_type, 1, failAt, <<>>)

\* SELECT DISTINCT course_code FROM name;
SqlSelectDistinct(tables, name) ==
    LET r == ResolveUnquoted(name)
    IN  IF ~r.ok THEN SqlErr(tables, "ProgrammingError")
        ELSE IF r.key \notin DOMAIN tables THEN SqlErr(tables, "ProgrammingError")
        ELSE IF "course_code" \notin ColSet(tables[r.key])
             THEN SqlErr(tables, "ProgrammingError")
        ELSE LET rows == tables[r.key].rows
                 first == SelectSeq([i \in DOMAIN rows |-> i],
                             LAMBDA i : \A j \in 1 .. (i - 1) :
                                 rows[j]["course_code"] # rows[i]["course_code"])
             IN  SqlRows(tables, [k \in DOMAIN first |-> <<rows[first[k]]["course_code"]>>])

FetchAllCourses(c, env) ==
    LET e == Execute(c, env, SqlSelectDistinct(c.work, Interp(c.table_name)))
    IN  IF e.err = "none"
        THEN Result(e.ctx, Ret([i \in DOMAIN e.rows |-> e.rows[i][1]]))
        ELSE Caught(e)

(***************************************************************************)
(* The Flask routes (app.py).  Each builds its own manager with            *)
(* get_db_manager: a new scraper, a new connection, table_name None.       *)
(***************************************************************************)
NewScraper(semester, exam_type) ==
    [semester |-> semester, exam_type |-> exam_type,
     file_name |-> NoneVal, year |-> NoneVal]

GetDbManager(tables, fs, semester, exam_type) ==
    [scraper |-> NewScraper(semester, exam_type), table_name |-> NoneVal,
     aborted |-> FALSE, work |-> tables, db |-> tables, files |-> fs, errs |-> 0]

\* success_response(data): (jsonify(data), 200)
SuccessResponse(c, data) ==
    Result(c, [kind |-> "http", exc |-> "", value |-> data, status |-> 200])
\* failure_response(str(e)): (jsonify({'error': message}), 404)
FailureResponse(c, e) ==
    Result(c, [kind |-> "http", exc |-> e, value |-> <<>>, status |-> 404])

\* try: ... return success_response(data)  except Exception as e: ...
Respond(r, data) ==
    IF IsRaise(r.out) THEN FailureResponse(r.ctx, r.out.exc)
    ELSE SuccessResponse(r.ctx, data)

CreateAllExams(tables, fs, semester, exam_type, resp, fsok, failAt) ==
    Respond(PopulateExamTable(GetDbManager(tables, fs, semester, exam_type),
                              semester, exam_type, resp, fsok, failAt),
            <<>>)

GetExamsByCourseCode(tables, fs, course_code, semester, exam_type, env) ==
    LET r == FetchExam(GetDbManager(tables, fs, semester, exam_type),
                       course_code, exam_type, env)
    IN  Respond(r, r.out.value)

\* update_exam(course_code, new_exam_data) leaves out the required
\* exam_type argument: the call itself raises TypeError
UpdateExamByCourseCode(tables, fs, course_code, semester, exam_type) ==
    Respond(Result(GetDbManager(tables, fs, semester, exam_type), Raise("TypeError")),
            <<>>)

DeleteExamByCourseCode(tables, fs, course_code, semester, exam_type, env) ==
    Respond(DeleteExam(GetDbManager(tables, fs, semester, exam_type), course_code, env),
            <<>>)

FetchAllCoursesRoute(tables, fs, semester, exam_type, env) ==
    LET r == FetchAllCourses(GetDbManager(tables, fs, semester, exam_type), env)
    IN  Respond(r, r.out.value)

(***************************************************************************)
(* Inputs: the semesters, exam types, course codes and registrar pages     *)
(* the calls are made with.                                                *)
(***************************************************************************)
SEM_fa == <<"f","a">>
SEM_FA == <<"F","A">>
SEM_FA24 == <<"F","A"," ","2","4">>
Semesters == {SEM_fa, SEM_FA, SEM_FA24}

YEAR24 == <<"2","4">>
YEAR25 == <<"2","5">>
Years == {YEAR24, YEAR25}

T_CS == <<"C","S">>
T_2110 == <<"2","1","1","0">>
T_001 == <<"0","0","1">>
T_1015 == <<"1","0","/","1","5">>
T_1214 == <<"1","2","/","1","4">>
T_900 == <<"9",":","0","0">>
T_AM == <<"A","M">>
T_in == <<"i","n">>
T_person == <<"p","e","r","s","o","n">>
T_Statler == <<"S","t","a","t","l","e","r">>
T_Barton == <<"B","a","r","t","o","n">>
T_Hall == <<"H","a","l","l">>
T_99 == <<"9","9">>
T_59 == <<"5","/","9">>

\* "CS 2110 10/15 Statler Hall"
LinePrelim == Join(<<T_CS, T_2110, T_1015, T_Statler, T_Hall>>)
\* "CS 2110 001 12/14 9:00 AM in person Barton Hall"
LineFinal == Join(<<T_CS, T_2110, T_001, T_1214, T_900, T_AM, T_in, T_person,
                    T_Barton, T_Hall>>)
\* "CS 2110": too short for either decoder
LineShort == Join(<<T_CS, T_2110>>)

CODE_CS2110 == Join(<<T_CS, T_2110>>)
CODE_CS2110_001 == Join(<<T_CS, T_2110, T_001>>)
CODE_CS99 == Join(<<T_CS, T_99>>)
Codes == {CODE_CS2110, CODE_CS99}

Page(info, lines) == [ok |-> TRUE, info |-> info, lines |-> lines]

\* the heading of the registrar's page for a semester: the semester label
\* and the year
InfoFor(semester) ==
    IF Len(Split(semester)) >= 2 THEN semester ELSE semester \o <<" ">> \o YEAR24
INFO_X == <<"X"," ","2","4">>

PageOne(semester) == Page(InfoFor(semester), <<LinePrelim>>)
PageTwo(semester) == Page(InfoFor(semester), <<LinePrelim, <<>>, <<" ">> \o LineFinal>>)
PageShort(semester) == Page(InfoFor(semester), <<LinePrelim, LineShort>>)
PageOther == Page(INFO_X, <<LinePrelim>>)

Responses(semester) ==
    {PageOne(semester), PageTwo(semester), PageShort(semester), PageOther, NoResponse}

\* the registrar's answer, whether the artifact can be written, and the
\* statement of the call the server fails (0: none)
PopulateEnvs(semester) ==
    {e \in [resp : Responses(semester), fsok : BOOLEAN, failAt : 0 .. (MaxRows + 1)] :
        /\ e.failAt <= Len(e.resp.lines)
        /\ (e.failAt > 0 \/ ~e.fsok) => e.resp = PageTwo(semester)
        /\ ~e.fsok => e.failAt = 0}

Envs == {"ok", "operr"}
FailAt(env) == IF env = "operr" THEN 1 ELSE 0

\* the records a page holds once it is decoded for a scraper's semester
\* and exam type (an outcome: a list, or the exception of the first bad line)
PageRecords(resp, semester, exam_type) ==
    ParseExamFile(<<Strip(resp.info)>> \o StripBlock(resp.lines), semester, exam_type)

(***************************************************************************)
(* The state machine: one DatabaseManager (with its WebScraper), built     *)
(* for a semester and an exam type, that a caller drives through the       *)
(* manager's methods.                                                      *)
(***************************************************************************)
Ctx ==
    [scraper |-> scraper, table_name |-> table_name, aborted |-> aborted,
     work |-> db, db |-> db, files |-> files, errs |-> 0]

RowsBounded(tables) == \A k \in DOMAIN tables : Len(tables[k].rows) <= MaxRows

NoArgs == [semester |-> <<>>, exam_type |-> <<>>, year |-> <<>>, code |-> <<>>,
           codes |-> <<>>, resp |-> NoResponse, fsok |-> TRUE, failAt |-> 0]

\* the manager's own call ends: its fields, the database and the files are
\* as the handler left them
Finish(op, args, r) ==
    /\ calls < MaxCalls
    /\ RowsBounded(r.ctx.db)
    /\ scraper' = r.ctx.scraper
    /\ table_name' = r.ctx.table_name
    /\ aborted' = r.ctx.aborted
    /\ db' = r.ctx.db
    /\ files' = r.ctx.files
    /\ result' = [op |-> op, args |-> args, out |-> r.out, errs |-> r.ctx.errs]
    /\ calls' = calls + 1

Init ==
    /\ scraper \in {NewScraper(s, t) : s \in Semesters, t \in {PRELIM, FINAL, MIDTERM}}
    /\ table_name = NoneVal
    /\ aborted = FALSE
    /\ db = << >>
    /\ files = << >>
    /\ result = [op |-> "init", args |-> NoArgs, out |-> RetTrue, errs |-> 0]
    /\ calls = 0

DoSetExamTableName ==
    \E y \in Years :
        Finish("set_exam_table_name",
               [NoArgs EXCEPT !.semester = scraper.semester, !.exam_type = PRELIM, !.year = y],
               Result(SetExamTableName(Ctx, ExamTableName(scraper.semester, y, PRELIM)),
                      RetTrue))

DoCreateExamTable ==
    \E t \in ExamTypes, y \in Years :
        Finish("create_exam_table",
               [NoArgs EXCEPT !.semester = scraper.semester, !.exam_type = t, !.year = y],
               CreateExamTable(Ctx, scraper.semester, t, y, "ok"))

DoPopulateExamTable ==
    \E e \in PopulateEnvs(scraper.semester) :
        Finish("populate_exam_table",
               [NoArgs EXCEPT !.semester = scraper.semester,
                              !.exam_type = scraper.exam_type, !.resp = e.resp,
                              !.fsok = e.fsok, !.failAt = e.failAt],
               PopulateExamTable(Ctx, scraper.semester, scraper.exam_type,
                                 e.resp, e.fsok, e.failAt))

DoInsertExam ==
    \E t \in ExamTypes :
        Finish("insert_exam",
               [NoArgs EXCEPT !.code = CODE_CS2110, !.exam_type = t],
               InsertExam(Ctx, CODE_CS2110, T_1015, T_Hall, t,
                          IF Lower(t) = FINAL THEN T_900 ELSE NoneVal,
                          IF Lower(t) = FINAL THEN T_in ELSE NoneVal, "ok"))

DoUpdateExam ==
    \E t \in ExamTypes :
        Finish("update_exam",
               [NoArgs EXCEPT !.code = CODE_CS2110, !.exam_type = t],
               UpdateExam(Ctx, CODE_CS2110, T_1214, T_Barton, t,
                          IF Lower(t) = FINAL THEN T_900 ELSE NoneVal,
                          IF Lower(t) = FINAL THEN T_in ELSE NoneVal, "ok"))

DoDeleteExam ==
    \E code \in Codes, env \in Envs :
        Finish("delete_exam",
               [NoArgs EXCEPT !.code = code, !.failAt = FailAt(env)],
               DeleteExam(Ctx, code, env))

DoDeleteAllExams ==
    Finish("delete_all_exams", NoArgs, DeleteAllExams(Ctx, "ok"))

DoFetchExam ==
    \E code \in Codes, t \in ExamTypes :
        Finish("fetch_exam",
               [NoArgs EXCEPT !.code = code, !.exam_type = t],
               FetchExam(Ctx, code, t, "ok"))

\* the lists of course codes fetch_k_exams is called with: a code with no
\* row between codes that may have rows, a code asked for twice, no code
CodeLists ==
    { <<CODE_CS2110, CODE_CS99, CODE_CS2110_001>>,
      <<CODE_CS2110, CODE_CS2110>>,
      << >> }

DoFetchKExams ==
    \E codes \in CodeLists, t \in {PRELIM, FINAL}, failAt \in {0, 2} :
        /\ failAt <= Len(codes)
        /\ failAt > 0 => t = PRELIM
        /\ Finish("fetch_k_exams",
                  [NoArgs EXCEPT !.codes = codes, !.exam_type = t, !.failAt = failAt],
                  FetchKExams(Ctx, codes, t, failAt))

Next ==
    \/ DoSetExamTableName
    \/ DoCreateExamTable
    \/ DoPopulateExamTable
    \/ DoInsertExam
    \/ DoUpdateExam
    \/ DoDeleteExam
    \/ DoDeleteAllExams
    \/ DoFetchExam
    \/ DoFetchKExams

Spec == Init /\ [][Next]_vars

(***************************************************************************)
(* The routes as a state machine: requests served one after the other on   *)
(* the same database and files.                                            *)
(***************************************************************************)
Served(op, args, r) ==
    /\ calls < MaxRequests
    /\ RowsBounded(r.ctx.db)
    /\ db' = r.ctx.db
    /\ files' = r.ctx.files
    /\ result' = [op |-> op, args |-> args, out |-> r.out, errs |-> r.ctx.errs]
    /\ calls' = calls + 1
    /\ UNCHANGED <<scraper, table_name, aborted>>

InitApp ==
    /\ scraper = NewScraper(SEM_fa, PRELIM)
    /\ table_name = NoneVal
    /\ aborted = FALSE
    /\ db = << >>
    /\ files = << >>
    /\ result = [op |-> "init", args |-> NoArgs, out |-> RetTrue, errs |-> 0]
    /\ calls = 0

\* the exam types requests name; populate lowers the exam type everywhere,
\* so Prelim is served as prelim is
RequestTypes == {PRELIM, FINAL, MIDTERM}

PostCreate ==
    \E s \in Semesters, t \in RequestTypes :
        \E e \in PopulateEnvs(s) :
            Served("POST /courses/exams/create",
                   [NoArgs EXCEPT !.semester = s, !.exam_type = t, !.resp = e.resp,
                                  !.fsok = e.fsok, !.failAt = e.failAt],
                   CreateAllExams(db, files, s, t, e.resp, e.fsok, e.failAt))

GetExams ==
    \E s \in {SEM_fa}, t \in ExamTypes, code \in {CODE_CS2110}, env \in Envs :
        Served("GET /courses/exams/<course_code>",
               [NoArgs EXCEPT !.semester = s, !.exam_type = t, !.code = code,
                              !.failAt = FailAt(env)],
               GetExamsByCourseCode(db, files, code, s, t, env))

PutUpdate ==
    \E s \in {SEM_fa}, t \in RequestTypes, code \in {CODE_CS2110} :
        Served("PUT /courses/exams/update/<course_code>",
               [NoArgs EXCEPT !.semester = s, !.exam_type = t, !.code = code],
               UpdateExamByCourseCode(db, files, code, s, t))

DeleteExamRoute ==
    \E s \in {SEM_fa}, t \in {PRELIM}, code \in Codes, env \in Envs :
        Served("DELETE /exams/delete/<course_code>",
               [NoArgs EXCEPT !.semester = s, !.exam_type = t, !.code = code,
                              !.failAt = FailAt(env)],
               DeleteExamByCourseCode(db, files, code, s, t, env))

GetCourses ==
    \E s \in {SEM_fa}, t \in {PRELIM}, env \in Envs :
        Served("GET /courses",
               [NoArgs EXCEPT !.semester = s, !.exam_type = t, !.failAt = FailAt(env)],
               FetchAllCoursesRoute(db, files, s, t, env))

NextApp ==
    \/ PostCreate
    \/ GetExams
    \/ PutUpdate
    \/ DeleteExamRoute
    \/ GetCourses

SpecApp == InitApp /\ [][NextApp]_vars

(***************************************************************************)
(* The parser alone: an artifact holding one line is processed by a        *)
(* scraper of each exam type.                                              *)
(***************************************************************************)
ARTIFACT == FileName(SEM_FA, YEAR24, PRELIM)

ParseTokens == {T_CS, T_59, T_1015}

GeneratedLines ==
    {Join(ts) : ts \in UNION {[1 .. n -> ParseTokens] : n \in 0 .. MaxTokens}}

\* "FAX 2110 10/15 Hall": a course whose subject starts with the label FA
LineLabelled == Join(<<SEM_FA \o <<"X">>, T_2110, T_1015, T_Hall>>)

\* "CS 2110 5/9 Statler Hall": a date of three characters
LineShortDate == Join(<<T_CS, T_2110, T_59, T_Statler, T_Hall>>)

ExampleLines ==
    { LinePrelim, LineFinal, LineShort, LineLabelled, LineShortDate, InfoFor(SEM_FA),
      <<" ", " ">> \o LinePrelim \o <<" ">>,
      T_CS \o <<" ", " ">> \o T_2110 \o <<" ", " ", " ">> \o T_001 \o <<" ">> \o T_1214
          \o <<" ">> \o T_900 \o <<" ", " ">> \o T_AM \o <<" ">> \o T_in \o <<" ">>
          \o T_person \o <<" ">> \o T_Barton \o <<" ", " ">> \o T_Hall }

ParseLines == GeneratedLines \cup ExampleLines

InitParse ==
    /\ \E line \in ParseLines, t \in ExamTypes :
          /\ scraper = [semester |-> SEM_FA, exam_type |-> t,
                        file_name |-> ARTIFACT, year |-> YEAR24]
          /\ files = (ARTIFACT :> <<line>>)
    /\ table_name = NoneVal
    /\ aborted = FALSE
    /\ db = << >>
    /\ result = [op |-> "init", args |-> NoArgs, out |-> RetTrue, errs |-> 0]
    /\ calls = 0

DoProcessExamData ==
    /\ calls = 0
    /\ LET r == ProcessExamData(Ctx, scraper.file_name)
       IN  /\ result' = [op |-> "process_exam_data", args |-> NoArgs,
                         out |-> r.out, errs |-> r.ctx.errs]
           /\ files' = r.ctx.files
    /\ calls' = calls + 1
    /\ UNCHANGED <<scraper, table_name, aborted, db>>

NextParse == DoProcessExamData

SpecParse == InitParse /\ [][NextParse]_vars

(***************************************************************************)
(* The scraper alone: scrape_course_info writes the artifact of a page,    *)
(* process_exam_data reads the artifact back, as populate_exam_table has   *)
(* them do.                                                                *)
(***************************************************************************)
T_Exam == <<"E","x","a","m">>
T_Schedule == <<"S","c","h","e","d","u","l","e">>

\* "FA 24 Exam Schedule": a heading that goes on after the year
HEADING_LONG == Join(<<SEM_FA, YEAR24, T_Exam, T_Schedule>>)

ScrapeSemesters == {SEM_fa, SEM_FA}

MaxBody == 2

ScrapeLines == {LinePrelim, LineFinal, LineShort, LineLabelled, << >>}

ScrapeBodies == UNION {[1 .. n -> ScrapeLines] : n \in 0 .. MaxBody}

ScrapePages(semester) ==
    {Page(h, b) : h \in {InfoFor(semester), HEADING_LONG}, b \in ScrapeBodies}
        \cup {NoResponse}

InitScrape ==
    /\ scraper \in {NewScraper(s, t) : s \in ScrapeSemesters, t \in {PRELIM, FINAL}}
    /\ table_name = NoneVal
    /\ aborted = FALSE
    /\ db = << >>
    /\ files = << >>
    /\ result = [op |-> "init", args |-> NoArgs, out |-> RetTrue, errs |-> 0]
    /\ calls = 0

DoScrapeCourseInfo ==
    \E resp \in ScrapePages(scraper.semester), fsok \in BOOLEAN :
        /\ ~fsok => resp = PageOne(scraper.semester)
        /\ Finish("scrape_course_info",
                  [NoArgs EXCEPT !.semester = scraper.semester,
                                 !.exam_type = scraper.exam_type,
                                 !.resp = resp, !.fsok = fsok],
                  ScrapeCourseInfo(Ctx, resp, fsok))

\* exam_data = self.scraper.process_exam_data(self.scraper.file_name)
DoProcessScraped ==
    /\ scraper.file_name # NoneVal
    /\ Finish("process_exam_data",
              [NoArgs EXCEPT !.semester = scraper.semester,
                             !.exam_type = scraper.exam_type],
              ProcessExamData(Ctx, scraper.file_name))

NextScrape ==
    \/ DoScrapeCourseInfo
    \/ DoProcessScraped

SpecScrape == InitScrape /\ [][NextScrape]_vars

(***************************************************************************)
(* Properties of the parser (SpecParse).                                   *)
(***************************************************************************)
\* the line of the artifact, its tokens, and whether it has been decoded
PLine == files[scraper.file_name][1]
PToks == Split(Strip(PLine))
Decoded ==
    /\ result.op = "process_exam_data"
    /\ ~Skipped(PLine, scraper.semester)
Sp == <<" ">>

\* C5: in both decoders a third token of exactly three characters is
\* folded into course_code and exam_date is the fourth token, whatever the
\* third token holds; a line that ends at the third token gives no record.
C5_SectionQualifierFolded ==
    ( /\ Decoded
      /\ Lower(scraper.exam_type) \in {PRELIM, FINAL}
      /\ Len(PToks) >= 3
      /\ Len(PToks[3]) = 3 )
    => IF Len(PToks) >= 4
       THEN /\ result.out.kind = "value"
            /\ Len(result.out.value) = 1
            /\ result.out.value[1].course_code
                 = PToks[1] \o Sp \o PToks[2] \o Sp \o PToks[3]
            /\ result.out.value[1].exam_date = PToks[4]
       ELSE IsRaise(result.out)

\* a three-character date is taken for a section qualifier by both decoders
C5_Witness ==
    /\ Decoded
    /\ PLine = LineShortDate
    /\ result.out.kind = "value"
    /\ result.out.value[1].course_code = Join(<<T_CS, T_2110, T_59>>)
    /\ result.out.value[1].exam_date = T_Statler

\* C6: a prelim line 'code1 code2 date loc...' whose third token is not
\* three characters long decodes to exactly the three fields
\* course_code = 'code1 code2', exam_date = date, exam_locations = the
\* trailing tokens joined by single spaces.
C6_PrelimDecoding ==
    ( /\ Decoded
      /\ Lower(scraper.exam_type) = PRELIM
      /\ Len(PToks) >= 3
      /\ Len(PToks[3]) # 3 )
    => result.out =
         Ret(<< [course_code |-> PToks[1] \o Sp \o PToks[2],
                 exam_date |-> PToks[3],
                 exam_locations |-> Join(SubSeq(PToks, 4, Len(PToks)))] >>)

\* 'CS 2110 10/15 Statler Hall' has been decoded as a prelim line
C6_Witness ==
    /\ Decoded
    /\ scraper.exam_type = PRELIM
    /\ PLine = LinePrelim
    /\ result.out.value =
         << [course_code |-> CODE_CS2110, exam_date |-> T_1015,
             exam_locations |-> Join(<<T_Statler, T_Hall>>)] >>

\* C7: a final line decodes to course_code (two tokens, or three with a
\* section qualifier), then exam_date, then two tokens of exam_time, two
\* tokens of test_type, and the remaining tokens as exam_locations.
C7_FinalDecoding ==
    LET k == IF Len(PToks[3]) = 3 THEN 3 ELSE 2
    IN  ( /\ Decoded
          /\ Lower(scraper.exam_type) = FINAL
          /\ Len(PToks) >= 3
          /\ Len(PToks) >= k + 5 )
        => result.out =
             Ret(<< [course_code |-> Join(SubSeq(PToks, 1, k)),
                     exam_date |-> PToks[k + 1],
                     exam_time |-> PToks[k + 2] \o Sp \o PToks[k + 3],
                     test_type |-> PToks[k + 4] \o Sp \o PToks[k + 5],
                     exam_locations |-> Join(SubSeq(PToks, k + 6, Len(PToks)))] >>)

\* 'CS 2110 001 12/14 9:00 AM in person Barton Hall' has been decoded as a
\* final line
C7_Witness ==
    /\ Decoded
    /\ scraper.exam_type = FINAL
    /\ PLine = LineFinal
    /\ result.out.value =
         << [course_code |-> CODE_CS2110_001, exam_date |-> T_1214,
             exam_time |-> Join(<<T_900, T_AM>>),
             test_type |-> Join(<<T_in, T_person>>),
             exam_locations |-> Join(<<T_Barton, T_Hall>>)] >>

(***************************************************************************)
(* Properties of the manager (Spec) and of the routes (SpecApp).           *)
(***************************************************************************)
\* this step is a call of op
Called(op) == calls' = calls + 1 /\ result'.op = op

TotalRows(tables) ==
    LET keys == DOMAIN tables
        RECURSIVE Sum(_)
        Sum(ks) == IF ks = {} THEN 0
                   ELSE LET k == CHOOSE x \in ks : TRUE
                        IN  Len(tables[k].rows) + Sum(ks \ {k})
    IN  Sum(keys)

\* the records of the page a populate call was answered with, decoded for
\* the manager's scraper
Scraped(args) == PageRecords(args.resp, scraper.semester, scraper.exam_type)

\* a decoded record as a row of a table with the record's fields as columns
RowsOf(recs) == [i \in DOMAIN recs |-> [c \in DOMAIN recs[i] |-> recs[i][c]]]

\* the manager after the step
CtxAfter ==
    [scraper |-> scraper', table_name |-> table_name', aborted |-> aborted',
     work |-> db', db |-> db', files |-> files', errs |-> 0]

\* C1: a call of create_exam_table, populate_exam_table, fetch_exam or
\* update_exam with an exam type other than prelim or final ends in an
\* error and leaves table_name, the artifact files, the set of tables and
\* every row as they were.
C1_UnknownExamTypeFailsFast ==
    [][ ( /\ calls' = calls + 1
          /\ result'.op \in {"create_exam_table", "populate_exam_table",
                             "fetch_exam", "update_exam"}
          /\ Lower(result'.args.exam_type) \notin {PRELIM, FINAL} )
        => ( /\ IsRaise(result'.out)
             /\ table_name' = table_name
             /\ files' = files
             /\ db' = db ) ]_vars

\* C2: a populate call on a healthy connection adds either every record of
\* the scraped page to the tables or none of them, and does not report
\* success when it added fewer than all.
C2_BatchAllOrNothing ==
    [][ ( /\ Called("populate_exam_table")
          /\ ~aborted
          /\ result'.args.resp.ok
          /\ result'.args.fsok
          /\ Scraped(result'.args).kind = "value" )
        => LET n == Len(Scraped(result'.args).value)
               added == TotalRows(db') - TotalRows(db)
           IN  /\ added \in {0, n}
               /\ added < n => result'.out.kind # "True" ]_vars

\* C3: after a populate call of a prelim or final manager on a healthy
\* connection, with no failure of the page fetch, the artifact write or a
\* statement, fetch_exam on the course_code of each scraped record returns
\* a record with the scraped fields.
C3_RoundTrip ==
    [][ ( /\ Called("populate_exam_table")
          /\ ~aborted
          /\ scraper.exam_type \in {PRELIM, FINAL}
          /\ result'.args.resp.ok
          /\ result'.args.fsok
          /\ result'.args.failAt = 0
          /\ Scraped(result'.args).kind = "value" )
        => LET recs == Scraped(result'.args).value
           IN  \A i \in DOMAIN recs :
                 LET f == FetchExam(CtxAfter, recs[i].course_code,
                                    scraper.exam_type, "ok").out
                 IN  /\ f.kind = "value"
                     /\ \E j \in DOMAIN f.value : f.value[j] = recs[i] ]_vars

\* C4: a response with status 200 is given only when no step of the request
\* failed: whenever error_response was called while the request was served,
\* the response is the failure envelope with status 404.
C4_FailureCollapsesTo404 ==
    result.out.kind = "http" =>
        (result.errs > 0 => result.out.status = 404)

\* C8: on a healthy connection, delete_exam of a course_code that has no
\* row in the table table_name names returns success and leaves every
\* table as it was.
C8_DeleteMissingSucceeds ==
    [][ ( /\ Called("delete_exam")
          /\ ~aborted
          /\ result'.args.failAt = 0
          /\ table_name \in DOMAIN db
          /\ \A i \in DOMAIN db[table_name].rows :
                db[table_name].rows[i]["course_code"] # result'.args.code )
        => ( /\ result'.out = RetTrue
             /\ result'.errs = 0
             /\ db' = db ) ]_vars

\* delete_exam has returned success for a code the non-empty current table
\* does not hold
C8_Witness ==
    /\ result.op = "delete_exam"
    /\ result.out = RetTrue
    /\ table_name \in DOMAIN db
    /\ db[table_name].rows # <<>>
    /\ \A i \in DOMAIN db[table_name].rows :
          db[table_name].rows[i]["course_code"] # result.args.code

\* C9: on a healthy connection, create_exam_table for prelim or final
\* succeeds, leaves a table named semester_year_examtype_exams with 3
\* (prelim) or 5 (final) columns, and changes nothing when that table
\* already exists.
C9_EnsureTableIdempotent ==
    [][ ( /\ Called("create_exam_table")
          /\ ~aborted
          /\ result'.args.exam_type \in {PRELIM, FINAL} )
        => LET a == result'.args
               key == Lower(ExamTableName(a.semester, a.year, a.exam_type))
           IN  /\ result'.out = RetTrue
               /\ key \in DOMAIN db'
               /\ Len(db'[key].cols) = (IF a.exam_type = PRELIM THEN 3 ELSE 5)
               /\ key \in DOMAIN db => db' = db ]_vars

\* rows a is rows b with more rows after it
IsPrefix(a, b) == Len(a) <= Len(b) /\ SubSeq(b, 1, Len(a)) = a

\* C10: no populate call removes or overwrites a row: every table keeps
\* the rows it held as a prefix of its rows.  A populate call that succeeds
\* (it returns True and no step reported an error) appends the records of
\* the scraped page, in order, to the rows the table already held and
\* changes no other table; so k such calls on a page of n records leave
\* k*n rows, each record k times.
C10_PopulateAppends ==
    [][ Called("populate_exam_table")
        => /\ \A k \in DOMAIN db :
                 k \in DOMAIN db' /\ IsPrefix(db[k].rows, db'[k].rows)
           /\ (result'.out = RetTrue /\ result'.errs = 0)
              => LET recs == Scraped(result'.args).value
                     key == Lower(table_name')
                     old == IF key \in DOMAIN db THEN db[key].rows ELSE <<>>
                 IN  /\ key \in DOMAIN db'
                     /\ db'[key].rows = old \o RowsOf(recs)
                     /\ \A k \in DOMAIN db : k # key => db'[k] = db[k]
                     /\ DOMAIN db' = DOMAIN db \cup {key} ]_vars

\* the second successful populate on the same page of two records: the
\* table holds each record twice
C10_Witness ==
    /\ result.op = "populate_exam_table"
    /\ result.out = RetTrue
    /\ result.errs = 0
    /\ calls = 2
    /\ Lower(table_name) \in DOMAIN db
    /\ LET recs == RowsOf(Scraped(result.args).value)
       IN  /\ Len(recs) = 2
           /\ db[Lower(table_name)].rows = recs \o recs

\* the database with every table but the one called name taken away
OnlyTable(tables, name) ==
    [k \in DOMAIN tables \cap {Lower(Interp(name))} |-> tables[k]]

\* C11: set_exam_table_name and create_exam_table select the table their
\* arguments name, populate_exam_table the table of its semester, the
\* scraped year and its exam type, and no other call changes the
\* selection.  insert_exam, update_exam, delete_exam, delete_all_exams and
\* the fetches create or drop no table and leave every table but the
\* selected one as it was; fetch_exam and fetch_k_exams return what they
\* would return if the selected table were the only one; with no table selected they leave the
\* database as it was.
C11_CurrentTableFrame ==
    [][ calls' = calls + 1
        => LET a == result'.args
               op == result'.op
           IN  /\ op \in {"set_exam_table_name", "create_exam_table"}
                  => table_name' = ExamTableName(a.semester, a.year, a.exam_type)
               /\ op = "populate_exam_table"
                  => \/ table_name' = table_name
                     \/ table_name' = ExamTableName(a.semester, scraper'.year,
                                                    Lower(a.exam_type))
               /\ op \in {"insert_exam", "update_exam", "delete_exam",
                          "delete_all_exams", "fetch_exam", "fetch_k_exams"}
                  => /\ table_name' = table_name
                     /\ DOMAIN db' = DOMAIN db
                     /\ \A k \in DOMAIN db :
                           k # Lower(Interp(table_name)) => db'[k] = db[k]
                     /\ table_name = NoneVal => db' = db
               /\ op = "fetch_exam"
                  => result'.out =
                        FetchExam([Ctx EXCEPT !.work = OnlyTable(db, table_name)],
                                  a.code, a.exam_type, "ok").out
               /\ op = "fetch_k_exams"
                  => result'.out =
                        FetchKExams([Ctx EXCEPT !.work = OnlyTable(db, table_name)],
                                    a.codes, a.exam_type, a.failAt).out ]_vars

\* delete_all_exams has emptied the selected table while another table of
\* the database holds rows
C11_Witness ==
    /\ result.op = "delete_all_exams"
    /\ result.out = RetTrue
    /\ table_name \in DOMAIN db
    /\ \E k \in DOMAIN db : k # table_name /\ db[k].rows # <<>>

\* the rows of a table that hold a course code, in the order of the table
RowsWithCode(rows, code) ==
    SelectSeq(rows, LAMBDA row : row["course_code"] = code)

\* C12: on a healthy connection with a prelim table selected,
\* fetch_k_exams(course_codes, 'prelim') returns, for the codes in the order
\* given, the record of the first row of the selected table that holds the
\* code and nothing for a code no row holds: as many records as there are
\* requested codes with a row; it reports no error and changes no table.
C12_FetchManyFirstMatch ==
    [][ ( /\ Called("fetch_k_exams")
          /\ ~aborted
          /\ result'.args.failAt = 0
          /\ result'.args.exam_type = PRELIM
          /\ table_name \in DOMAIN db )
        => LET rows == db[table_name].rows
               found == SelectSeq(result'.args.codes,
                                  LAMBDA code : RowsWithCode(rows, code) # <<>>)
               first(code) == RowsWithCode(rows, code)[1]
               out == result'.out
           IN  /\ out.kind = "value"
               /\ Len(out.value) = Len(found)
               /\ \A n \in DOMAIN found :
                     out.value[n] =
                        [course_code |-> found[n],
                         exam_date |-> first(found[n])["exam_date"],
                         exam_locations |-> first(found[n])["exam_locations"]]
               /\ result'.errs = 0
               /\ db' = db ]_vars

\* fetch_k_exams has answered a list holding a code with no row and a code
\* that two different rows of the selected table hold
C12_Witness ==
    /\ result.op = "fetch_k_exams"
    /\ result.out.kind = "value"
    /\ table_name \in DOMAIN db
    /\ LET rows == db[table_name].rows
           codes == result.args.codes
       IN  /\ \E i \in DOMAIN codes : RowsWithCode(rows, codes[i]) = <<>>
           /\ \E i \in DOMAIN codes :
                 /\ Len(RowsWithCode(rows, codes[i])) >= 2
                 /\ RowsWithCode(rows, codes[i])[1] # RowsWithCode(rows, codes[i])[2]
           /\ Len(result.out.value) >= 1
           /\ Len(result.out.value) < Len(codes)

(***************************************************************************)
(* Properties of the scraper (SpecScrape).                                 *)
(***************************************************************************)
\* C13: when process_exam_data has read an artifact, whose first line is
\* the header the scrape wrote, and each line after the header that is not
\* empty and does not start with the semester label has the tokens its
\* decoder needs, the result is the list of the records of exactly those
\* lines, in file order: the header contributes no record.
C13_OneRecordPerLine ==
    ( /\ result.op = "process_exam_data"
      /\ scraper.file_name \in DOMAIN files )
    => LET body == Tail(files[scraper.file_name])
           kept == SelectSeq(body, LAMBDA l :
                      Strip(l) # <<>> /\ ~StartsWith(Strip(l), scraper.semester))
           decs == [i \in DOMAIN kept |->
                      DecodeLine(Split(Strip(kept[i])), scraper.exam_type)]
       IN  (\A i \in DOMAIN decs : ~IsRaise(decs[i]))
           => /\ result.out.kind = "value"
              /\ result.out.value = [i \in DOMAIN decs |-> decs[i].value]

(***************************************************************************)
(* Further properties of the manager (Spec).                               *)
(***************************************************************************)
\* C14: on a healthy connection with a prelim table selected,
\* update_exam(code, date, locations, 'prelim') succeeds and sets exam_date
\* and exam_locations to the given date and locations in exactly the rows
\* of the selected table whose course_code is the given code; course_code
\* and every other row stay as they were.  (The calls are made with the
\* date 12/14 and the location Barton.)
C14_UpdateSetsFields ==
    [][ ( /\ Called("update_exam")
          /\ ~aborted
          /\ Lower(result'.args.exam_type) = PRELIM
          /\ Lower(Interp(table_name)) \in DOMAIN db )
        => LET key == Lower(Interp(table_name))
               old == db[key].rows
               new == db'[key].rows
           IN  /\ result'.out = RetTrue
               /\ DOMAIN new = DOMAIN old
               /\ \A i \in DOMAIN old :
                     new[i] = IF old[i]["course_code"] = result'.args.code
                              THEN [old[i] EXCEPT !["exam_date"] = T_1214,
                                                  !["exam_locations"] = T_Barton]
                              ELSE old[i] ]_vars

\* C15: a populate call whose page fetch fails (transport error or non-2xx
\* status) creates no table, adds no row and does not report success,
\* whatever calls were made on the manager before.
C15_FailedFetchStopsPipeline ==
    [][ ( /\ Called("populate_exam_table")
          /\ ~result'.args.resp.ok )
        => ( /\ db' = db
             /\ result'.out.kind # "True" ) ]_vars

====
